---- MODULE Spec2Model ----
(***************************************************************************)
(* Per-point Weyl4 extraction of GRChombo (Source/CCZ4/Weyl4.impl.hpp) and *)
(* the data construction of Tests/CCZ4Test/CCZ4Test.cpp.                   *)
(*                                                                         *)
(* Arithmetic is exact.  A number (data_t) is a finite sum of monomials    *)
(* (n/d)*sqrt(r) with r a squarefree positive integer, which is closed     *)
(* under every operation the code performs on rational inputs (+ - * /,    *)
(* sqrt of a rational).  The non-finite results of IEEE arithmetic         *)
(* (x/0, 0/0, sqrt of a negative number, and anything computed from them)  *)
(* are the single absorbing value NaN.                                     *)
(*                                                                         *)
(* Tensor indices are 1..3 here for the source's 0..2; the time index of   *)
(* the 4-vectors (3 in the source) is 4.                                   *)
(***************************************************************************)
EXTENDS Integers, Sequences, FiniteSets, TLC

----------------------------------------------------------------------------
(* Exact numbers *)

Abs(n) == IF n < 0 THEN -n ELSE n

RECURSIVE GCD(_, _)
GCD(a, b) == IF b = 0 THEN a ELSE GCD(b, a % b)

\* the monomial (n/d)*sqrt(r) in lowest terms, d > 0
Mono(n, d, r) ==
    LET g == GCD(Abs(n), Abs(d))
        s == IF d < 0 THEN -1 ELSE 1
    IN  [n |-> s * (n \div g), d |-> s * (d \div g), r |-> r]

\* the non-finite value: 0/0
NaN == {[n |-> 0, d |-> 0, r |-> 0]}

Zero == {}

Rat(n, d) == IF n = 0 THEN Zero ELSE {Mono(n, d, 1)}

N(n) == Rat(n, 1)

One == N(1)

IsRat(a) == a # NaN /\ \A t \in a : t.r = 1

\* the term of a with radical r (coefficient 0 when there is none)
Term(a, r) ==
    IF \E t \in a : t.r = r THEN CHOOSE t \in a : t.r = r
    ELSE [n |-> 0, d |-> 1, r |-> r]

\* (n1/d1 + n2/d2)*sqrt(r) over the least common denominator
MonoAdd(s, t) ==
    LET g == GCD(s.d, t.d)
    IN  Mono(s.n * (t.d \div g) + t.n * (s.d \div g), (s.d \div g) * t.d, s.r)

Add(a, b) ==
    IF a = NaN \/ b = NaN THEN NaN
    ELSE IF a = Zero THEN b
    ELSE IF b = Zero THEN a
    ELSE LET sum(r) == MonoAdd(Term(a, r), Term(b, r))
         IN  {m \in {sum(r) : r \in {t.r : t \in a \cup b}} : m.n # 0}

Neg(a) == IF a = NaN THEN NaN ELSE {[t EXCEPT !.n = -t.n] : t \in a}

Sub(a, b) == Add(a, Neg(b))

\* sqrt(r1)*sqrt(r2) = g*sqrt((r1/g)*(r2/g)) for squarefree r1, r2, g = gcd;
\* the fractions and g are reduced crosswise before they are multiplied
MonoMul(s, t) ==
    LET g == GCD(s.r, t.r)
        a == GCD(Abs(s.n), t.d)
        b == GCD(Abs(t.n), s.d)
        c == GCD(g, s.d \div b)
        e == GCD(g \div c, t.d \div a)
        m == Mono((s.n \div a) * (t.n \div b) * ((g \div c) \div e),
                  ((s.d \div b) \div c) * ((t.d \div a) \div e), 1)
    IN  [n |-> m.n, d |-> m.d, r |-> (s.r \div g) * (t.r \div g)]

RECURSIVE MulTerms(_, _)
MulTerms(a, b) ==
    IF a = {} THEN Zero
    ELSE LET s == CHOOSE t \in a : TRUE
         IN  Add({MonoMul(s, t) : t \in b}, MulTerms(a \ {s}, b))

Mul(a, b) ==
    IF a = NaN \/ b = NaN THEN NaN
    ELSE IF a = Zero \/ b = Zero THEN Zero
    ELSE MulTerms(a, b)

\* 1/a; the code divides by single monomials only (chi, lapse, sqrt(..))
Inv(a) ==
    IF a = NaN \/ a = Zero THEN NaN
    ELSE LET t == CHOOSE s \in a : Cardinality(a) = 1
             m == Mono(t.d, t.n * t.r, 1)
         IN  {[n |-> m.n, d |-> m.d, r |-> t.r]}

Div(a, b) == Mul(a, Inv(b))

\* the largest f with f*f dividing n, searched from the trial divisor k
RECURSIVE SquarePart(_, _)
SquarePart(n, k) ==
    IF k * k > n THEN 1
    ELSE IF n % (k * k) = 0 THEN k * SquarePart(n \div (k * k), k)
    ELSE SquarePart(n, k + 1)

\* sqrt of a rational: sqrt(n/d) = (a/(b*q)) * sqrt(p*q), n = a*a*p, d = b*b*q
Sqrt(a) ==
    IF a = NaN THEN NaN
    ELSE IF a = Zero THEN Zero
    ELSE LET t == CHOOSE s \in a : Cardinality(a) = 1 /\ s.r = 1
         IN  IF t.n < 0 THEN NaN
             ELSE LET sa == SquarePart(t.n, 2)
                      sb == SquarePart(t.d, 2)
                      p  == t.n \div (sa * sa)
                      q  == t.d \div (sb * sb)
                      m  == Mono(sa, sb * q, 1)
                  IN  {[n |-> m.n, d |-> m.d, r |-> p * q]}

\* a < b for rationals
Less(a, b) ==
    LET c == Sub(a, b)
    IN  c # Zero /\ (CHOOSE t \in c : TRUE).n < 0

IsPos(a) == Less(Zero, a)

simd_max(a, b) == IF Less(a, b) THEN b ELSE a

----------------------------------------------------------------------------
(* Fixed-size tensors: tuples, so that every component is computed once *)

I3 == 1 .. 3

S1(F(_)) == Add(F(1), Add(F(2), F(3)))
S2(F(_, _)) == S1(LAMBDA i : S1(LAMBDA j : F(i, j)))
S3(F(_, _, _)) == S1(LAMBDA i : S2(LAMBDA j, k : F(i, j, k)))

T1(F(_)) == <<F(1), F(2), F(3)>>
T2(F(_, _)) == T1(LAMBDA i : T1(LAMBDA j : F(i, j)))
T3(F(_, _, _)) == T1(LAMBDA i : T2(LAMBDA j, k : F(i, j, k)))
T4(F(_, _, _, _)) == T1(LAMBDA i : T3(LAMBDA j, k, l : F(i, j, k, l)))

Mul3(a, b, c) == Mul(Mul(a, b), c)
Mul4(a, b, c, d) == Mul(Mul(Mul(a, b), c), d)

ZeroVec == T1(LAMBDA i : Zero)
ZeroT2 == T2(LAMBDA i, j : Zero)
ZeroT3 == T3(LAMBDA i, j, k : Zero)
ZeroT4 == T4(LAMBDA i, j, k, l : Zero)

delta(i, j) == IF i = j THEN One ELSE Zero

Identity == T2(delta)

IsSymmetric(t) == \A i, j \in I3 : t[i][j] = t[j][i]

HasNaN1(v) == \E i \in I3 : v[i] = NaN

\* matrix product a . b
MatMul(a, b) == T2(LAMBDA i, j : S1(LAMBDA k : Mul(a[i][k], b[k][j])))

----------------------------------------------------------------------------
(* TensorAlgebra *)

\* the 3D alternating symbol: +1 on even, -1 on odd permutations of (1,2,3)
epsilon(i, j, k) ==
    IF <<i, j, k>> \in {<<1, 2, 3>>, <<2, 3, 1>>, <<3, 1, 2>>} THEN One
    ELSE IF <<i, j, k>> \in {<<1, 3, 2>>, <<3, 2, 1>>, <<2, 1, 3>>} THEN N(-1)
    ELSE Zero

compute_determinant_sym(m) ==
    LET t(i, j, k, l, p, q) == Mul3(m[i][j], m[k][l], m[p][q])
    IN  Sub(Sub(Sub(Add(t(1, 1, 2, 2, 3, 3),
                        Mul(N(2), t(1, 2, 1, 3, 2, 3))),
                    t(1, 1, 2, 3, 2, 3)),
                t(2, 2, 1, 3, 1, 3)),
            t(3, 3, 1, 2, 1, 2))

\* upper triangle of the cofactor inverse, then mirrored
compute_inverse_sym(m) ==
    LET deth == compute_determinant_sym(m)
        c(i, j, k, l, p, q, r, s) ==
            Div(Sub(Mul(m[i][j], m[k][l]), Mul(m[p][q], m[r][s])), deth)
        u11 == c(2, 2, 3, 3, 2, 3, 2, 3)
        u12 == c(1, 3, 2, 3, 1, 2, 3, 3)
        u13 == c(1, 2, 2, 3, 1, 3, 2, 2)
        u22 == c(1, 1, 3, 3, 1, 3, 1, 3)
        u23 == c(1, 2, 1, 3, 1, 1, 2, 3)
        u33 == c(1, 1, 2, 2, 1, 2, 1, 2)
    IN  <<<<u11, u12, u13>>, <<u12, u22, u23>>, <<u13, u23, u33>>>>

\* the 4D alternating symbol: the sign of the permutation (i,j,k,l) of
\* (1,2,3,4), 0 when two indices are equal
epsilon4D(i, j, k, l) ==
    LET p == <<i, j, k, l>>
        inv == Cardinality({q \in (1 .. 4) \X (1 .. 4) :
                               q[1] < q[2] /\ p[q[1]] > p[q[2]]})
    IN  IF Cardinality({i, j, k, l}) < 4 THEN 0
        ELSE IF inv % 2 = 0 THEN 1 ELSE -1

Half == Rat(1, 2)
Third == Rat(1, 3)

\* Christoffel symbols of the conformal metric: [LLL, ULL]
compute_christoffel(d1_h, h_UU) ==
    LET LLL == T3(LAMBDA i, j, k :
                    Mul(Half, Sub(Add(d1_h[j][i][k], d1_h[k][i][j]),
                                  d1_h[j][k][i])))
    IN  [LLL |-> LLL,
         ULL |-> T3(LAMBDA i, j, k :
                      S1(LAMBDA l : Mul(h_UU[i][l], LLL[l][j][k])))]

\* Christoffel symbols of the physical metric h/chi
compute_phys_chris(d1_chi, chi, h, h_UU, chris_ULL) ==
    T3(LAMBDA i, j, k :
         Add(Sub(chris_ULL[i][j][k],
                 Mul(Div(Half, chi),
                     Add(Mul(delta(i, k), d1_chi[j]),
                         Mul(delta(i, j), d1_chi[k])))),
             S1(LAMBDA m : Mul4(Div(Half, chi), h[j][k], h_UU[i][m],
                                d1_chi[m]))))

\* Ricci tensor of the physical metric in the conformal decomposition
compute_ricci(v, d, dd, h_UU, chris) ==
    LET covDtilde2chi ==
            T2(LAMBDA k, l :
                 Sub(dd.chi[k][l],
                     S1(LAMBDA m : Mul(chris.ULL[m][k][l], d.chi[m]))))
        boxtildechi == S2(LAMBDA k, l : Mul(h_UU[k][l], covDtilde2chi[k][l]))
        dchi_dot_dchi ==
            S2(LAMBDA m, n : Mul3(h_UU[m][n], d.chi[m], d.chi[n]))
        ricci_tilde(i, j) ==
            S1(LAMBDA k :
                 Add(Add(Mul(Half, Add(Mul(v.h[k][i], d.Gamma[k][j]),
                                       Mul(v.h[k][j], d.Gamma[k][i]))),
                         Mul3(Half, v.Gamma[k], d.h[i][j][k])),
                     S1(LAMBDA l :
                          Add(Neg(Mul3(Half, h_UU[k][l], dd.h[i][j][k][l])),
                              S1(LAMBDA m :
                                   Mul(h_UU[l][m],
                                       Add(Add(Mul(chris.ULL[k][l][i],
                                                   chris.LLL[j][k][m]),
                                               Mul(chris.ULL[k][l][j],
                                                   chris.LLL[i][k][m])),
                                           Mul(chris.ULL[k][i][m],
                                               chris.LLL[k][l][j]))))))))
        ricci_chi(i, j) ==
            Mul(Half,
                Sub(Add(covDtilde2chi[i][j], Mul(v.h[i][j], boxtildechi)),
                    Div(Add(Mul(d.chi[i], d.chi[j]),
                            Mul3(N(3), v.h[i][j], dchi_dot_dchi)),
                        Mul(N(2), v.chi))))
    IN  T2(LAMBDA i, j :
             Div(Add(ricci_chi(i, j), Mul(v.chi, ricci_tilde(i, j))), v.chi))

----------------------------------------------------------------------------
(* Weyl4::compute_EB_fields *)

\* mutant: the time component left as 1. instead of 1. / vars.lapse
n_U_unit_time(v) ==
    <<Div(Neg(v.shift[1]), v.lapse), Div(Neg(v.shift[2]), v.lapse),
      Div(Neg(v.shift[3]), v.lapse), One>>

\* raised normal vector, index 4 is time
n_U(v) ==
    <<Div(Neg(v.shift[1]), v.lapse), Div(Neg(v.shift[2]), v.lapse),
      Div(Neg(v.shift[3]), v.lapse), Div(One, v.lapse)>>

\* projection of the 4D alternating symbol onto the hypersurface
epsilon3_LLL(v) ==
    LET n == n_U(v)
        term(i, j, k, l) ==
            Div(Mul3(n[l], N(epsilon4D(i, j, k, l)), v.lapse),
                Mul(v.chi, Sqrt(v.chi)))
    IN  T3(LAMBDA i, j, k :
             Add(Add(term(i, j, k, 1), term(i, j, k, 2)),
                 Add(term(i, j, k, 3), term(i, j, k, 4))))

\* its last two indices raised with the physical inverse metric h_UU * chi
epsilon3_LUU(v, eps_LLL, h_UU) ==
    T3(LAMBDA i, j, k :
         S2(LAMBDA m, n :
              Mul(Mul4(eps_LLL[i][m][n], h_UU[m][j], v.chi, h_UU[n][k]),
                  v.chi)))

\* mutant: the factor vars.K dropped from the trace part
K_tensor_no_trace(v) ==
    T2(LAMBDA i, j :
         Add(Div(v.A[i][j], v.chi), Div(Mul(Third, v.h[i][j]), v.chi)))

\* extrinsic curvature
K_tensor(v) ==
    T2(LAMBDA i, j :
         Add(Div(v.A[i][j], v.chi),
             Div(Mul(Third, Mul(v.h[i][j], v.K)), v.chi)))

\* and its partial derivatives
d1_K_tensor(v, d, K_t) ==
    T3(LAMBDA i, j, k :
         Add(Add(Sub(Div(d.A[i][j][k], v.chi),
                     Mul(Div(d.chi[k], v.chi), K_t[i][j])),
                 Div(Mul3(Third, d.h[i][j][k], v.K), v.chi)),
             Div(Mul3(Third, v.h[i][j], d.K[k]), v.chi)))

\* covariant derivative of K
covariant_deriv_K_tensor(d1_K, K_t, chris_phys) ==
    T3(LAMBDA i, j, k :
         Add(d1_K[i][j][k],
             S1(LAMBDA l :
                  Sub(Neg(Mul(chris_phys[l][k][i], K_t[l][j])),
                      Mul(chris_phys[l][k][j], K_t[i][l])))))

magnetic_field(eps_LUU, covd_K) ==
    T2(LAMBDA i, j :
         S2(LAMBDA k, l : Mul(eps_LUU[i][k][l], covd_K[l][j][k])))

\* mutant: the contraction index l of h_UU mistyped as j
electric_field_index(v, ricci_LL, K_t, h_UU) ==
    T2(LAMBDA i, j :
         Add(Add(ricci_LL[i][j], Mul(v.K, K_t[i][j])),
             S2(LAMBDA k, l :
                  Neg(Mul4(K_t[i][k], K_t[l][j], h_UU[k][j], v.chi)))))

electric_field(v, ricci_LL, K_t, h_UU) ==
    T2(LAMBDA i, j :
         Add(Add(ricci_LL[i][j], Mul(v.K, K_t[i][j])),
             S2(LAMBDA k, l :
                  Neg(Mul4(K_t[i][k], K_t[l][j], h_UU[k][l], v.chi)))))

compute_EB_fields(v, d, dd) ==
    LET eps_LLL == epsilon3_LLL(v)
        h_UU == compute_inverse_sym(v.h)
        eps_LUU == epsilon3_LUU(v, eps_LLL, h_UU)
        chris == compute_christoffel(d.h, h_UU)
        ricci == compute_ricci(v, d, dd, h_UU, chris)
        chris_phys == compute_phys_chris(d.chi, v.chi, v.h, h_UU, chris.ULL)
        K_t == K_tensor(v)
        d1_K == d1_K_tensor(v, d, K_t)
        covd_K == covariant_deriv_K_tensor(d1_K, K_t, chris_phys)
    IN  [E |-> electric_field(v, ricci, K_t, h_UU),
         B |-> magnetic_field(eps_LUU, covd_K)]

----------------------------------------------------------------------------
(* Weyl4::compute_null_tetrad, one definition per block of the function *)

ChiFloorDen == 10000

\* floor on chi: simd_max(vars.chi, 1e-4)
chi_floor(v) == simd_max(v.chi, Rat(1, ChiFloorDen))

\* sum_ij a[i] * b[j] * h[i][j] / chi
inner(a, b, h, chi) ==
    S2(LAMBDA i, j : Div(Mul3(a[i], b[j], h[i][j]), chi))

\* mutant: the azimuthal seed mistyped as (-y, y, 0)
tetrad_seed_vy(c) ==
    [u |-> <<c.x, c.y, c.z>>,
     v |-> <<Neg(c.y), c.y, Zero>>,
     w |-> ZeroVec]

tetrad_seed(c) ==
    [u |-> <<c.x, c.y, c.z>>,
     v |-> <<Neg(c.y), c.x, Zero>>,
     w |-> ZeroVec]

\* mutant: the alternating symbol contracted with h instead of h_UU
tetrad_seed_w_lower(t, h, h_UU, chi) ==
    [t EXCEPT !.w = T1(LAMBDA i : Add(t.w[i],
        S3(LAMBDA j, k, m :
             Mul(Mul4(Div(One, Sqrt(chi)), h[i][j], epsilon(j, k, m),
                      t.v[k]), t.u[m]))))]

tetrad_seed_w(t, h, h_UU, chi) ==
    [t EXCEPT !.w = T1(LAMBDA i : Add(t.w[i],
        S3(LAMBDA j, k, m :
             Mul(Mul4(Div(One, Sqrt(chi)), h_UU[i][j], epsilon(j, k, m),
                      t.v[k]), t.u[m]))))]

omega_11(t, h, chi) == inner(t.v, t.v, h, chi)
normalise_v(t, o11) == [t EXCEPT !.v = T1(LAMBDA i : Div(t.v[i], Sqrt(o11)))]

omega_12(t, h, chi) == inner(t.v, t.u, h, chi)

\* mutant: the component along v added instead of removed
project_u_plus(t, o12) ==
    [t EXCEPT !.u = T1(LAMBDA i : Add(t.u[i], Mul(o12, t.v[i])))]

\* mutant: the order u, then v: the u-component is removed from v
project_u_from_v(t, o12) ==
    [t EXCEPT !.v = T1(LAMBDA i : Add(t.v[i], Mul(Neg(o12), t.u[i])))]

project_u(t, o12) ==
    [t EXCEPT !.u = T1(LAMBDA i : Add(t.u[i], Mul(Neg(o12), t.v[i])))]

omega_22(t, h, chi) == inner(t.u, t.u, h, chi)
normalise_u(t, o22) == [t EXCEPT !.u = T1(LAMBDA i : Div(t.u[i], Sqrt(o22)))]

omega_13(t, h, chi) == inner(t.v, t.w, h, chi)
omega_23(t, h, chi) == inner(t.u, t.w, h, chi)
project_w(t, o13, o23) ==
    [t EXCEPT !.w = T1(LAMBDA i : Add(t.w[i],
        Neg(Add(Mul(o13, t.v[i]), Mul(o23, t.u[i])))))]

omega_33(t, h, chi) == inner(t.w, t.w, h, chi)
normalise_w(t, o33) == [t EXCEPT !.w = T1(LAMBDA i : Div(t.w[i], Sqrt(o33)))]

compute_null_tetrad(v, c) ==
    LET h_UU == compute_inverse_sym(v.h)
        chi == chi_floor(v)
        t1 == tetrad_seed_w(tetrad_seed(c), v.h, h_UU, chi)
        t2 == normalise_v(t1, omega_11(t1, v.h, chi))
        t3 == project_u(t2, omega_12(t2, v.h, chi))
        t4 == normalise_u(t3, omega_22(t3, v.h, chi))
        t5 == project_w(t4, omega_13(t4, v.h, chi), omega_23(t4, v.h, chi))
    IN  normalise_w(t5, omega_33(t5, v.h, chi))

----------------------------------------------------------------------------
(* Weyl4::compute_Weyl4 *)

\* projection of the electric and magnetic fields with the tetrad
weyl4_projection(eb, t) ==
    [Real |->
        S2(LAMBDA i, j :
             Mul(Half,
                 Sub(Mul(eb.E[i][j], Sub(Mul(t.w[i], t.w[j]),
                                         Mul(t.v[i], t.v[j]))),
                     Mul4(N(2), eb.B[i][j], t.w[i], t.v[j])))),
     Im |->
        S2(LAMBDA i, j :
             Mul(Half,
                 Sub(Mul(eb.B[i][j], Add(Neg(Mul(t.w[i], t.w[j])),
                                         Mul(t.v[i], t.v[j]))),
                     Mul4(N(2), eb.E[i][j], t.w[i], t.v[j]))))]

compute_Weyl4(eb, v, c) == weyl4_projection(eb, compute_null_tetrad(v, c))

----------------------------------------------------------------------------
(* State *)

VARIABLES
    pc,        \* position of the evaluation in progress
    cell,      \* the grid cell it evaluates
    vars,      \* the variable bundle loaded at the point
    d1,        \* its first derivatives
    d2,        \* its second derivatives
    coords,    \* the point's coordinates relative to the centre
    loc,       \* the local tensors of compute_EB_fields
    ebfields,  \* EBFields_t: [E, B]
    tetrad,    \* Tetrad_t: [u, v, w], the local `out` of compute_null_tetrad
    omega,     \* the other locals of compute_null_tetrad: h_UU, chi, omega_xx
    np,        \* NPScalar_t: [Real, Im]
    divisors,  \* every value of chi the evaluation has divided by so far
    fab,       \* the FArrayBox: cell -> channel -> value
    parked,    \* the evaluations of the threads that are not running
    todo,      \* the cells no thread has taken yet
    accesses,  \* per evaluated cell, the <<cell, channel>> it read and wrote
    harness    \* the locals of the test's data construction

Inputs == <<vars, d1, d2, coords>>
Grid == <<cell, fab, parked, todo, accesses>>

state ==
    <<pc, cell, vars, d1, d2, coords, loc, ebfields, tetrad, omega, np,
      divisors, fab, parked, todo, accesses, harness>>

----------------------------------------------------------------------------
(* Inputs *)

MaxCoord == 1
MaxOff == 1

CoordValues == {N(n) : n \in -MaxCoord .. MaxCoord}
Points ==
    [x : {N(n) : n \in 0 .. MaxCoord}, y : CoordValues,
     z : {N(n) : n \in 0 .. MaxCoord}]

\* symmetric positive-definite integer matrices (Sylvester's criterion)
IsSPD(a, b, c, p, q, r) ==
    /\ a > 0
    /\ a * b - p * p > 0
    /\ a * b * c + 2 * p * q * r - a * r * r - b * q * q - c * p * p > 0

Sym(a, b, c, p, q, r) ==
    <<<<N(a), N(p), N(q)>>, <<N(p), N(b), N(r)>>, <<N(q), N(r), N(c)>>>>

\* conformal metrics: the identity, and every positive-definite matrix with
\* the diagonal (MaxOff+1, MaxOff+2, MaxOff+1) and off-diagonal entries of
\* magnitude at most MaxOff
Metrics ==
    {Identity} \cup
    {Sym(MaxOff + 1, MaxOff + 2, MaxOff + 1, m[1], m[2], m[3]) :
        m \in {o \in (-MaxOff .. MaxOff) \X (-MaxOff .. MaxOff)
                      \X (-MaxOff .. MaxOff) :
                 IsSPD(MaxOff + 1, MaxOff + 2, MaxOff + 1, o[1], o[2], o[3])}}

\* conformal factors above the floor
ChiValues == {Rat(1, 4), One, N(2)}

\* conformal factors below the floor and at it.  omega_33 grows as 1/chi^2
\* and TLC's integers have 32 bits, so these are paired with the
\* small inputs below only
LowChiValues == {Zero, Rat(1, 4 * ChiFloorDen), Rat(1, ChiFloorDen)}
LowChiMetrics == {Identity, Sym(2, 1, 1, 1, 0, 0)}
LowChiPoints ==
    {[x |-> N(p[1]), y |-> N(p[2]), z |-> N(p[3])] :
        p \in {<<0, 0, 0>>, <<0, 0, 1>>, <<1, 0, 0>>, <<0, 1, 0>>,
               <<1, 1, 0>>, <<1, 0, 1>>, <<1, -1, 1>>}}

TetradInputs ==
    {[h |-> h, chi |-> chi, at |-> c] :
        h \in Metrics, chi \in ChiValues, c \in Points}
    \cup
    {[h |-> h, chi |-> chi, at |-> c] :
        h \in LowChiMetrics, chi \in LowChiValues, c \in LowChiPoints}

FlatVars ==
    [chi |-> One, h |-> Identity, K |-> Zero, A |-> ZeroT2, lapse |-> One,
     shift |-> ZeroVec, Gamma |-> ZeroVec]
ZeroD1 ==
    [chi |-> ZeroVec, h |-> ZeroT3, K |-> ZeroVec, A |-> ZeroT3,
     Gamma |-> ZeroT2]
ZeroD2 == [chi |-> ZeroT2, h |-> ZeroT4]

NoLocals ==
    [eps_LLL |-> ZeroT3, h_UU |-> ZeroT2, eps_LUU |-> ZeroT3,
     chris |-> [LLL |-> ZeroT3, ULL |-> ZeroT3], ricci |-> ZeroT2,
     chris_phys |-> ZeroT3, K_tensor |-> ZeroT2, d1_K_tensor |-> ZeroT3,
     covd_K |-> ZeroT3]
NoFields == [E |-> ZeroT2, B |-> ZeroT2]
NoTetrad == [u |-> ZeroVec, v |-> ZeroVec, w |-> ZeroVec]
NoOmega ==
    [h_UU |-> ZeroT2, chi |-> Zero, o11 |-> Zero, o12 |-> Zero, o22 |-> Zero,
     o13 |-> Zero, o23 |-> Zero, o33 |-> Zero]
NoScalar == [Real |-> Zero, Im |-> Zero]

\* field values between -1 and 1 generated from a seed; the seed 0 gives the
\* zero field
MaxSeed == 1
Seeds == 0 .. MaxSeed

Gen(s, a, b) == IF s = 0 THEN Zero ELSE N(((s * a + b) % 3) - 1)

\* the bundle: symmetric h and A, chi > 0, lapse > 0
GenVars(h, chi, sK, sA, sg) ==
    [chi |-> chi, h |-> h, K |-> N(sK),
     A |-> T2(LAMBDA i, j : Gen(sA, i + j, i * j)),
     lapse |-> N(1 + sg),
     shift |-> T1(LAMBDA i : Gen(sg, i, 0)),
     Gamma |-> T1(LAMBDA i : Gen(sA, i, 2))]

\* first derivatives d[..][k], symmetric in the index pair of h and of A
GenD1(sgeo, sk) ==
    [chi |-> T1(LAMBDA k : Gen(sgeo, k, 0)),
     h |-> T3(LAMBDA i, j, k : Gen(sgeo, i + j + k, i * j)),
     K |-> T1(LAMBDA k : Gen(sk, k, 1)),
     A |-> T3(LAMBDA i, j, k : Gen(sk, i + j, i * j + k)),
     Gamma |-> T2(LAMBDA i, k : Gen(sgeo, i, k))]

\* second derivatives d[..][k][l], symmetric in (k,l) and in the pair of h
GenD2(sgeo) ==
    [chi |-> T2(LAMBDA k, l : Gen(sgeo, k + l, k * l)),
     h |-> T4(LAMBDA i, j, k, l : Gen(sgeo, i + j + k + l, i * j + k * l))]

PointMetrics == {Identity, Sym(2, 3, 2, 1, 0, -1)}
PointChi == {One, Rat(1, 4)}
GenPoints ==
    {[x |-> N(1), y |-> N(0), z |-> N(1)], [x |-> N(1), y |-> N(-1), z |-> N(0)]}

\* data with d_k K_ij = S_ij a_k, S = diag(1,1,-1), a = e_1, on flat space:
\* S a = tr(S) a, so the momentum constraint holds
ConstraintD1 ==
    [ZeroD1 EXCEPT !.A = T3(LAMBDA i, j, k :
        IF i = j /\ k = 1 THEN (IF i = 3 THEN N(-1) ELSE One) ELSE Zero)]

PointInputs ==
    \* flat space at every point
    {[vars |-> FlatVars, d1 |-> ZeroD1, d2 |-> ZeroD2, at |-> c] : c \in Points}
    \cup
    \* conformal factors at and below the floor
    {[vars |-> [FlatVars EXCEPT !.h = h, !.chi = chi],
      d1 |-> ZeroD1, d2 |-> ZeroD2, at |-> c] :
        h \in LowChiMetrics, chi \in LowChiValues, c \in LowChiPoints}
    \cup
    \* generic valid data
    {[vars |-> GenVars(m[1], m[2], m[3], m[4], m[5]),
      d1 |-> GenD1(m[6], m[7]), d2 |-> GenD2(m[6]), at |-> m[8]] :
        m \in PointMetrics \X PointChi \X Seeds \X Seeds \X Seeds
              \X Seeds \X Seeds \X GenPoints}
    \cup
    {[vars |-> [FlatVars EXCEPT !.K = One], d1 |-> ConstraintD1,
      d2 |-> ZeroD2, at |-> c] : c \in GenPoints}

----------------------------------------------------------------------------
(* compute_EB_fields, block by block *)

Origin == <<0, 0, 0>>
NoGrid ==
    /\ cell = Origin
    /\ fab = <<>>
    /\ parked = <<>>
    /\ todo = {}
    /\ accesses = <<>>
NoHarness ==
    [g |-> ZeroT2, detg |-> Zero, g_UU |-> ZeroT2, h_UU |-> ZeroT2,
     chi |-> Zero, K |-> ZeroT2, trK |-> Zero]

\* the first division by vars.chi
EB_Epsilon3LLL ==
    /\ pc = "compute"
    /\ loc' = [loc EXCEPT !.eps_LLL = epsilon3_LLL(vars)]
    /\ divisors' = divisors \cup {vars.chi}
    /\ pc' = "eb_inverse"
    /\ UNCHANGED <<Inputs, ebfields, tetrad, omega, np, Grid, harness>>

EB_Inverse ==
    /\ pc = "eb_inverse"
    /\ loc' = [loc EXCEPT !.h_UU = compute_inverse_sym(vars.h)]
    /\ pc' = "eb_raise"
    /\ UNCHANGED <<Inputs, ebfields, tetrad, omega, np, divisors, Grid, harness>>

EB_Epsilon3LUU ==
    /\ pc = "eb_raise"
    /\ loc' = [loc EXCEPT !.eps_LUU = epsilon3_LUU(vars, loc.eps_LLL, loc.h_UU)]
    /\ pc' = "eb_chris"
    /\ UNCHANGED <<Inputs, ebfields, tetrad, omega, np, divisors, Grid, harness>>

EB_Christoffel ==
    /\ pc = "eb_chris"
    /\ loc' = [loc EXCEPT !.chris = compute_christoffel(d1.h, loc.h_UU)]
    /\ pc' = "eb_ricci"
    /\ UNCHANGED <<Inputs, ebfields, tetrad, omega, np, divisors, Grid, harness>>

EB_Ricci ==
    /\ pc = "eb_ricci"
    /\ loc' = [loc EXCEPT
                 !.ricci = compute_ricci(vars, d1, d2, loc.h_UU, loc.chris)]
    /\ pc' = "eb_chris_phys"
    /\ UNCHANGED <<Inputs, ebfields, tetrad, omega, np, divisors, Grid, harness>>

EB_PhysChris ==
    /\ pc = "eb_chris_phys"
    /\ loc' = [loc EXCEPT
                 !.chris_phys = compute_phys_chris(d1.chi, vars.chi, vars.h,
                                                   loc.h_UU, loc.chris.ULL)]
    /\ pc' = "eb_K"
    /\ UNCHANGED <<Inputs, ebfields, tetrad, omega, np, divisors, Grid, harness>>

EB_KTensor ==
    /\ pc = "eb_K"
    /\ loc' = [loc EXCEPT !.K_tensor = K_tensor(vars)]
    /\ divisors' = divisors \cup {vars.chi}
    /\ pc' = "eb_d1_K"
    /\ UNCHANGED <<Inputs, ebfields, tetrad, omega, np, Grid, harness>>

EB_D1KTensor ==
    /\ pc = "eb_d1_K"
    /\ loc' = [loc EXCEPT !.d1_K_tensor = d1_K_tensor(vars, d1, loc.K_tensor)]
    /\ divisors' = divisors \cup {vars.chi}
    /\ pc' = "eb_covd"
    /\ UNCHANGED <<Inputs, ebfields, tetrad, omega, np, Grid, harness>>

EB_CovariantDeriv ==
    /\ pc = "eb_covd"
    /\ loc' = [loc EXCEPT
                 !.covd_K = covariant_deriv_K_tensor(loc.d1_K_tensor,
                                                     loc.K_tensor,
                                                     loc.chris_phys)]
    /\ pc' = "eb_B"
    /\ UNCHANGED <<Inputs, ebfields, tetrad, omega, np, divisors, Grid, harness>>

EB_Magnetic ==
    /\ pc = "eb_B"
    /\ ebfields' = [ebfields EXCEPT
                      !.B = magnetic_field(loc.eps_LUU, loc.covd_K)]
    /\ pc' = "eb_E"
    /\ UNCHANGED <<Inputs, loc, tetrad, omega, np, divisors, Grid, harness>>

EB_Electric ==
    /\ pc = "eb_E"
    /\ ebfields' = [ebfields EXCEPT
                      !.E = electric_field(vars, loc.ricci, loc.K_tensor,
                                           loc.h_UU)]
    /\ pc' = "tetrad"
    /\ UNCHANGED <<Inputs, loc, tetrad, omega, np, divisors, Grid, harness>>

NextEB ==
    \/ EB_Epsilon3LLL
    \/ EB_Inverse
    \/ EB_Epsilon3LUU
    \/ EB_Christoffel
    \/ EB_Ricci
    \/ EB_PhysChris
    \/ EB_KTensor
    \/ EB_D1KTensor
    \/ EB_CovariantDeriv
    \/ EB_Magnetic
    \/ EB_Electric

----------------------------------------------------------------------------
(* compute_null_tetrad, block by block *)

InitTetrad ==
    /\ pc = "tetrad"
    /\ \E i \in TetradInputs :
           /\ vars = [FlatVars EXCEPT !.h = i.h, !.chi = i.chi]
           /\ coords = i.at
    /\ d1 = ZeroD1
    /\ d2 = ZeroD2
    /\ loc = NoLocals
    /\ ebfields = NoFields
    /\ tetrad = NoTetrad
    /\ omega = NoOmega
    /\ np = NoScalar
    /\ divisors = {}
    /\ NoGrid
    /\ harness = NoHarness

Seed ==
    /\ pc = "tetrad"
    /\ omega' = [omega EXCEPT !.h_UU = compute_inverse_sym(vars.h)]
    /\ tetrad' = tetrad_seed(coords)
    /\ pc' = "seeded"
    /\ UNCHANGED <<Inputs, loc, ebfields, np, divisors, Grid, harness>>

\* from here on chi is the floored copy
SeedW ==
    /\ pc = "seeded"
    /\ omega' = [omega EXCEPT !.chi = chi_floor(vars)]
    /\ tetrad' = tetrad_seed_w(tetrad, vars.h, omega.h_UU, chi_floor(vars))
    /\ divisors' = divisors \cup {chi_floor(vars)}
    /\ pc' = "gs_v"
    /\ UNCHANGED <<Inputs, loc, ebfields, np, Grid, harness>>

NormaliseV ==
    /\ pc = "gs_v"
    /\ omega' = [omega EXCEPT !.o11 = omega_11(tetrad, vars.h, omega.chi)]
    /\ tetrad' = normalise_v(tetrad, omega'.o11)
    /\ pc' = "gs_u"
    /\ divisors' = divisors \cup {omega.chi}
    /\ UNCHANGED <<Inputs, loc, ebfields, np, Grid, harness>>

ProjectU ==
    /\ pc = "gs_u"
    /\ omega' = [omega EXCEPT !.o12 = omega_12(tetrad, vars.h, omega.chi)]
    /\ tetrad' = project_u(tetrad, omega'.o12)
    /\ pc' = "gs_u_norm"
    /\ divisors' = divisors \cup {omega.chi}
    /\ UNCHANGED <<Inputs, loc, ebfields, np, Grid, harness>>

NormaliseU ==
    /\ pc = "gs_u_norm"
    /\ omega' = [omega EXCEPT !.o22 = omega_22(tetrad, vars.h, omega.chi)]
    /\ tetrad' = normalise_u(tetrad, omega'.o22)
    /\ pc' = "gs_w"
    /\ divisors' = divisors \cup {omega.chi}
    /\ UNCHANGED <<Inputs, loc, ebfields, np, Grid, harness>>

ProjectW ==
    /\ pc = "gs_w"
    /\ omega' = [omega EXCEPT !.o13 = omega_13(tetrad, vars.h, omega.chi),
                              !.o23 = omega_23(tetrad, vars.h, omega.chi)]
    /\ tetrad' = project_w(tetrad, omega'.o13, omega'.o23)
    /\ pc' = "gs_w_norm"
    /\ divisors' = divisors \cup {omega.chi}
    /\ UNCHANGED <<Inputs, loc, ebfields, np, Grid, harness>>

NormaliseW ==
    /\ pc = "gs_w_norm"
    /\ omega' = [omega EXCEPT !.o33 = omega_33(tetrad, vars.h, omega.chi)]
    /\ tetrad' = normalise_w(tetrad, omega'.o33)
    /\ pc' = "tetrad_done"
    /\ divisors' = divisors \cup {omega.chi}
    /\ UNCHANGED <<Inputs, loc, ebfields, np, Grid, harness>>

NextTetrad ==
    \/ Seed
    \/ SeedW
    \/ NormaliseV
    \/ ProjectU
    \/ NormaliseU
    \/ ProjectW
    \/ NormaliseW

SpecTetrad == InitTetrad /\ [][NextTetrad]_state

----------------------------------------------------------------------------
(* One evaluation of compute_EB_fields and compute_Weyl4 at a point *)

Init ==
    /\ pc = "compute"
    /\ \E i \in PointInputs :
           /\ vars = i.vars
           /\ d1 = i.d1
           /\ d2 = i.d2
           /\ coords = i.at
    /\ loc = NoLocals
    /\ ebfields = NoFields
    /\ tetrad = NoTetrad
    /\ omega = NoOmega
    /\ np = NoScalar
    /\ divisors = {}
    /\ NoGrid
    /\ harness = NoHarness

\* compute_Weyl4 after its call of compute_null_tetrad
Projection ==
    /\ pc = "tetrad_done"
    /\ np' = weyl4_projection(ebfields, tetrad)
    /\ pc' = "done"
    /\ UNCHANGED <<Inputs, loc, ebfields, tetrad, omega, divisors, Grid, harness>>

Next ==
    \/ NextEB
    \/ NextTetrad
    \/ Projection

Spec == Init /\ [][Next]_state

----------------------------------------------------------------------------
(* Weyl4::compute over the cells of a box, two threads, one FArrayBox for
   input and output *)

MaxCell == 1

InteriorCells == {<<x, 0, 0>> : x \in 0 .. MaxCell}
Cells == (-1 .. MaxCell + 1) \X (-1 .. 1) \X (-1 .. 1)

c_h == <<<<"h11", "h12", "h13">>, <<"h12", "h22", "h23">>,
       <<"h13", "h23", "h33">>>>
c_A == <<<<"A11", "A12", "A13">>, <<"A12", "A22", "A23">>,
       <<"A13", "A23", "A33">>>>
c_Gamma == <<"Gamma1", "Gamma2", "Gamma3">>
c_shift == <<"shift1", "shift2", "shift3">>

\* the channels the Vars of Weyl4 are loaded from, and the ones Diff2Vars is
Diff2Channels == {"chi"} \cup {c_h[i][j] : i, j \in I3}
VarsChannels ==
    Diff2Channels \cup {"K", "lapse"} \cup {c_A[i][j] : i, j \in I3}
        \cup {c_Gamma[i] : i \in I3} \cup {c_shift[i] : i \in I3}

c_Weyl4_Re == "Weyl4_Re"
c_Weyl4_Im == "Weyl4_Im"

m_dx == Half
m_center == <<Rat(1, 4), Rat(-1, 4), Rat(1, 4)>>

\* Cell::load_vars
load_vars(f, c) ==
    [chi |-> f[c].chi,
     h |-> T2(LAMBDA i, j : f[c][c_h[i][j]]),
     K |-> f[c].K,
     A |-> T2(LAMBDA i, j : f[c][c_A[i][j]]),
     lapse |-> f[c].lapse,
     shift |-> T1(LAMBDA i : f[c][c_shift[i]]),
     Gamma |-> T1(LAMBDA i : f[c][c_Gamma[i]])]

\* the cell at the offset n in direction k
Offset(c, k, n) == [c EXCEPT ![k] = @ + n]

\* centred differences
D1(f, c, ch, k) ==
    Div(Sub(f[Offset(c, k, 1)][ch], f[Offset(c, k, -1)][ch]),
        Mul(N(2), m_dx))

D2(f, c, ch, k, l) ==
    IF k = l
    THEN Div(Add(Sub(f[Offset(c, k, 1)][ch], Mul(N(2), f[c][ch])),
                 f[Offset(c, k, -1)][ch]),
             Mul(m_dx, m_dx))
    ELSE Div(Sub(Add(f[Offset(Offset(c, k, 1), l, 1)][ch],
                     f[Offset(Offset(c, k, -1), l, -1)][ch]),
                 Add(f[Offset(Offset(c, k, 1), l, -1)][ch],
                     f[Offset(Offset(c, k, -1), l, 1)][ch])),
             Mul3(N(4), m_dx, m_dx))

diff1(f, c) ==
    [chi |-> T1(LAMBDA k : D1(f, c, "chi", k)),
     h |-> T3(LAMBDA i, j, k : D1(f, c, c_h[i][j], k)),
     K |-> T1(LAMBDA k : D1(f, c, "K", k)),
     A |-> T3(LAMBDA i, j, k : D1(f, c, c_A[i][j], k)),
     Gamma |-> T2(LAMBDA i, k : D1(f, c, c_Gamma[i], k))]

diff2(f, c) ==
    [chi |-> T2(LAMBDA k, l : D2(f, c, "chi", k, l)),
     h |-> T4(LAMBDA i, j, k, l : D2(f, c, c_h[i][j], k, l))]

\* the cells the two stencils read
Stencil1(c) == {Offset(c, k, n) : k \in I3, n \in {-1, 1}}
Stencil2(c) ==
    {c} \cup Stencil1(c)
        \cup {Offset(Offset(c, d[1], n), d[2], m) :
                  d \in {e \in I3 \X I3 : e[1] # e[2]},
                  n \in {-1, 1}, m \in {-1, 1}}

\* Coordinates: the centre of the cell, relative to m_center
Coordinates(c) ==
    [x |-> Sub(Mul(Add(N(c[1]), Half), m_dx), m_center[1]),
     y |-> Sub(Mul(Add(N(c[2]), Half), m_dx), m_center[2]),
     z |-> Sub(Mul(Add(N(c[3]), Half), m_dx), m_center[3])]

\* Cell::store_vars
store_vars(f, c, value, channel) == [f EXCEPT ![c][channel] = value]

\* field data: values 0 or 1, and -1, 0 or 1, from a seed; the seed 0 gives
\* constant fields
Bit(sd, c, n) ==
    IF sd = 0 THEN 0
    ELSE (sd * (c[1] + 1) + (n + 1) * (c[2] + 1)
            + (c[3] + 1) * (c[1] + n + 1)) % 2

Trit(sd, c, n) ==
    IF sd = 0 THEN 0
    ELSE ((sd * (c[1] + 1) * (n + 1) + (c[2] + 1) * (n + 2)
             + (c[3] + 1) * (c[1] + 2)) % 3) - 1

\* chi > 0, lapse > 0, h positive definite (diagonal 2 or 3, off-diagonal
\* 0 or 1); the output channels hold whatever was there before
FabData(sg, sk) ==
    [c \in Cells |->
        [chi |-> N(1 + Bit(sg, c, 0)),
         h11 |-> N(2 + Bit(sg, c, 1)), h12 |-> N(Bit(sg, c, 2)),
         h13 |-> N(Bit(sg, c, 3)), h22 |-> N(2 + Bit(sg, c, 4)),
         h23 |-> N(Bit(sg, c, 5)), h33 |-> N(2 + Bit(sg, c, 6)),
         K |-> N(Trit(sk, c, 7)),
         A11 |-> N(Trit(sk, c, 8)), A12 |-> N(Trit(sk, c, 9)),
         A13 |-> N(Trit(sk, c, 10)), A22 |-> N(Trit(sk, c, 11)),
         A23 |-> N(Trit(sk, c, 12)), A33 |-> N(Trit(sk, c, 13)),
         Gamma1 |-> N(Trit(sg, c, 14)), Gamma2 |-> N(Trit(sg, c, 15)),
         Gamma3 |-> N(Trit(sg, c, 16)),
         lapse |-> N(1 + Bit(sg, c, 17)),
         shift1 |-> N(Trit(sg, c, 18)), shift2 |-> N(Trit(sg, c, 19)),
         shift3 |-> N(Trit(sg, c, 20)),
         Weyl4_Re |-> N(5 + Trit(1, c, 21)),
         Weyl4_Im |-> N(5 + Trit(1, c, 22))]]

\* the locals of one call of Weyl4::compute
Context ==
    [pc |-> pc, cell |-> cell, vars |-> vars, d1 |-> d1, d2 |-> d2,
     coords |-> coords, loc |-> loc, ebfields |-> ebfields,
     tetrad |-> tetrad, omega |-> omega, np |-> np]

NoCoords == [x |-> Zero, y |-> Zero, z |-> Zero]

InitGrid ==
    /\ pc = "idle"
    /\ cell = Origin
    /\ vars = FlatVars
    /\ d1 = ZeroD1
    /\ d2 = ZeroD2
    /\ coords = NoCoords
    /\ loc = NoLocals
    /\ ebfields = NoFields
    /\ tetrad = NoTetrad
    /\ omega = NoOmega
    /\ np = NoScalar
    /\ divisors = {}
    /\ \E sg \in Seeds, sk \in Seeds : fab = FabData(sg, sk)
    /\ parked = <<Context>>
    /\ todo = InteriorCells
    /\ accesses = [c \in InteriorCells |-> [reads |-> {}, writes |-> {}]]
    /\ harness = NoHarness

\* a thread takes a cell and enters compute: load_vars
LoadVars ==
    /\ pc = "idle"
    /\ \E c \in todo :
           /\ cell' = c
           /\ todo' = todo \ {c}
           /\ vars' = load_vars(fab, c)
           /\ accesses' = [accesses EXCEPT ![c].reads =
                               @ \cup {<<c, ch>> : ch \in VarsChannels}]
    /\ d1' = ZeroD1
    /\ d2' = ZeroD2
    /\ coords' = NoCoords
    /\ loc' = NoLocals
    /\ ebfields' = NoFields
    /\ tetrad' = NoTetrad
    /\ omega' = NoOmega
    /\ np' = NoScalar
    /\ pc' = "diff1"
    /\ UNCHANGED <<divisors, fab, parked, harness>>

Diff1 ==
    /\ pc = "diff1"
    /\ d1' = diff1(fab, cell)
    /\ accesses' = [accesses EXCEPT ![cell].reads =
                        @ \cup (Stencil1(cell) \X VarsChannels)]
    /\ pc' = "diff2"
    /\ UNCHANGED <<cell, vars, d2, coords, loc, ebfields, tetrad, omega, np,
                   divisors, fab, parked, todo, harness>>

Diff2 ==
    /\ pc = "diff2"
    /\ d2' = diff2(fab, cell)
    /\ accesses' = [accesses EXCEPT ![cell].reads =
                        @ \cup (Stencil2(cell) \X Diff2Channels)]
    /\ pc' = "coords"
    /\ UNCHANGED <<cell, vars, d1, coords, loc, ebfields, tetrad, omega, np,
                   divisors, fab, parked, todo, harness>>

Coords ==
    /\ pc = "coords"
    /\ coords' = Coordinates(cell)
    /\ pc' = "compute"
    /\ UNCHANGED <<cell, vars, d1, d2, loc, ebfields, tetrad, omega, np,
                   divisors, fab, parked, todo, accesses, harness>>

\* mutant: Real stored to the channel of chi
StoreRe_chi ==
    /\ pc = "done"
    /\ fab' = store_vars(fab, cell, np.Real, "chi")
    /\ accesses' = [accesses EXCEPT ![cell].writes = @ \cup {<<cell, "chi">>}]
    /\ pc' = "stored_re"
    /\ UNCHANGED <<cell, Inputs, loc, ebfields, tetrad, omega, np, divisors,
                   parked, todo, harness>>

StoreRe ==
    /\ pc = "done"
    /\ fab' = store_vars(fab, cell, np.Real, c_Weyl4_Re)
    /\ accesses' = [accesses EXCEPT ![cell].writes =
                        @ \cup {<<cell, c_Weyl4_Re>>}]
    /\ pc' = "stored_re"
    /\ UNCHANGED <<cell, Inputs, loc, ebfields, tetrad, omega, np, divisors,
                   parked, todo, harness>>

\* mutant: Im stored to c_Weyl4_Re as well
StoreIm_Re ==
    /\ pc = "stored_re"
    /\ fab' = store_vars(fab, cell, np.Im, c_Weyl4_Re)
    /\ accesses' = [accesses EXCEPT ![cell].writes =
                        @ \cup {<<cell, c_Weyl4_Re>>}]
    /\ pc' = "idle"
    /\ UNCHANGED <<cell, Inputs, loc, ebfields, tetrad, omega, np, divisors,
                   parked, todo, harness>>

\* the call returns
StoreIm ==
    /\ pc = "stored_re"
    /\ fab' = store_vars(fab, cell, np.Im, c_Weyl4_Im)
    /\ accesses' = [accesses EXCEPT ![cell].writes =
                        @ \cup {<<cell, c_Weyl4_Im>>}]
    /\ pc' = "idle"
    /\ UNCHANGED <<cell, Inputs, loc, ebfields, tetrad, omega, np, divisors,
                   parked, todo, harness>>

\* the scheduler runs another thread: at any point, without synchronization
Switch ==
    \E i \in DOMAIN parked :
        /\ parked[i] # Context
        /\ parked' = [parked EXCEPT ![i] = Context]
        /\ pc' = parked[i].pc
        /\ cell' = parked[i].cell
        /\ vars' = parked[i].vars
        /\ d1' = parked[i].d1
        /\ d2' = parked[i].d2
        /\ coords' = parked[i].coords
        /\ loc' = parked[i].loc
        /\ ebfields' = parked[i].ebfields
        /\ tetrad' = parked[i].tetrad
        /\ omega' = parked[i].omega
        /\ np' = parked[i].np
        /\ UNCHANGED <<divisors, fab, todo, accesses, harness>>

NextGrid ==
    \/ LoadVars
    \/ Diff1
    \/ Diff2
    \/ Coords
    \/ NextEB
    \/ NextTetrad
    \/ Projection
    \/ StoreRe
    \/ StoreIm
    \/ Switch

SpecGrid == InitGrid /\ [][NextGrid]_state

----------------------------------------------------------------------------
(* Properties of Weyl4::compute on the box *)

Channels == VarsChannels \cup {c_Weyl4_Re, c_Weyl4_Im}

OutputsOf(c) == {<<c, c_Weyl4_Re>>, <<c, c_Weyl4_Im>>}

\* what the running evaluation has written up to its position
WritesSoFar ==
    /\ pc \notin {"idle", "stored_re"} => accesses[cell].writes = {}
    /\ pc = "stored_re" => accesses[cell].writes = {<<cell, c_Weyl4_Re>>}

C4_Step ==
    \* the only changes of the FArrayBox are the two stores, at the cell
    /\ \A c \in Cells, ch \in Channels :
           fab'[c][ch] # fab[c][ch] =>
               /\ c = cell
               /\ \/ pc = "done" /\ ch = c_Weyl4_Re /\ fab'[c][ch] = np.Real
                  \/ pc = "stored_re" /\ ch = c_Weyl4_Im
                        /\ fab'[c][ch] = np.Im
    \* when the evaluation returns it has written its two outputs, no more
    /\ (parked' = parked /\ pc = "stored_re") =>
           /\ accesses'[cell].writes = OutputsOf(cell)
           /\ fab'[cell][c_Weyl4_Re] = np.Real
           /\ fab'[cell][c_Weyl4_Im] = np.Im
    \* a step of the evaluation leaves what it was given alone
    /\ (parked' = parked /\ pc # "idle") => vars' = vars
    /\ (parked' = parked /\ pc \notin {"idle", "diff1"}) => d1' = d1
    /\ (parked' = parked /\ pc \notin {"idle", "diff1", "diff2"}) => d2' = d2
    /\ (parked' = parked /\ pc \notin {"idle", "diff1", "diff2", "coords"})
           => coords' = coords

\* C4: one evaluation at a cell writes exactly two values, Real to
\* c_Weyl4_Re and Im to c_Weyl4_Im, both at that cell, and changes nothing
\* else: not the bundle, the derivatives, the coordinates, any other channel
\* or any other cell
C4_OutputContract == []WritesSoFar /\ [][C4_Step]_state

C4_Witness ==
    /\ pc = "idle"
    /\ cell \in InteriorCells
    /\ accesses[cell].writes = OutputsOf(cell)
    /\ fab[cell][c_Weyl4_Re] = np.Real
    /\ fab[cell][c_Weyl4_Im] = np.Im
    /\ np.Real \notin {Zero, NaN}
    /\ np.Im \notin {Zero, NaN}
    /\ d1 # ZeroD1
    /\ todo = {}

----------------------------------------------------------------------------
\* one call of Weyl4::compute at the cell c of the FArrayBox f
compute(f, c) ==
    LET v == load_vars(f, c)
        out == compute_Weyl4(compute_EB_fields(v, diff1(f, c), diff2(f, c)),
                             v, Coordinates(c))
    IN  store_vars(store_vars(f, c, out.Real, c_Weyl4_Re),
                   c, out.Im, c_Weyl4_Im)

\* the calls one after another, by increasing x from the cell <<x, 0, 0>>
RECURSIVE InOrder(_, _)
InOrder(f, x) ==
    IF x > MaxCell THEN f ELSE InOrder(compute(f, <<x, 0, 0>>), x + 1)

AllDone ==
    /\ todo = {}
    /\ pc = "idle"
    /\ \A i \in DOMAIN parked : parked[i].pc = "idle"

NoCrossAccess ==
    \A a, b \in InteriorCells :
        a # b => /\ accesses[a].reads \cap accesses[b].writes = {}
                 /\ accesses[a].writes \cap accesses[b].writes = {}

\* C5: whatever the order and the interleaving of the evaluations, the
\* FArrayBox ends as it does when they run one after another in a fixed
\* order, and no evaluation reads a value another evaluation writes
C5_OrderIndependent ==
    /\ NoCrossAccess
    /\ AllDone => \E sg \in Seeds, sk \in Seeds :
                      fab = InOrder(FabData(sg, sk), 0)

\* one thread is between its two stores while the other, at a neighbouring
\* cell, has loaded its bundle and is about to read its stencil
C5_Witness ==
    /\ pc = "stored_re"
    /\ np.Real \notin {Zero, NaN}
    /\ \E i \in DOMAIN parked :
           /\ parked[i].pc = "diff1"
           /\ cell \in Stencil1(parked[i].cell)
           /\ parked[i].vars # vars

----------------------------------------------------------------------------
(* The metric inversion of the test's data construction, next to the one
   compute_EB_fields and compute_null_tetrad call *)

MaxEntry == 1

\* symmetric matrices with a positive diagonal, singular and indefinite ones
\* included
SymMatrices ==
    {Sym(m[1], m[2], m[3], m[4], m[5], m[6]) :
        m \in (1 .. MaxEntry + 1) \X (1 .. MaxEntry + 1) \X (1 .. MaxEntry + 1)
              \X (-MaxEntry .. MaxEntry) \X (-MaxEntry .. MaxEntry)
              \X (-MaxEntry .. MaxEntry)}

harness_detg(g) ==
    Sub(Sub(Sub(Add(Mul3(g[1][1], g[2][2], g[3][3]),
                    Mul4(N(2), g[1][2], g[1][3], g[2][3])),
                Mul3(g[1][1], g[2][3], g[2][3])),
            Mul3(g[2][2], g[1][3], g[1][3])),
        Mul3(g[3][3], g[1][2], g[1][2]))

\* mutant: g[2][2] mistyped as g[1][1] in the cofactor of g_UU[0][1]
harness_g_UU_typo(g, detg) ==
    LET u11 == Div(Sub(Mul(g[2][2], g[3][3]), Mul(g[2][3], g[2][3])), detg)
        u12 == Div(Sub(Mul(g[1][3], g[2][3]), Mul(g[1][2], g[2][2])), detg)
        u13 == Div(Sub(Mul(g[1][2], g[2][3]), Mul(g[1][3], g[2][2])), detg)
        u22 == Div(Sub(Mul(g[1][1], g[3][3]), Mul(g[1][3], g[1][3])), detg)
        u23 == Div(Sub(Mul(g[1][2], g[1][3]), Mul(g[1][1], g[2][3])), detg)
        u33 == Div(Sub(Mul(g[1][1], g[2][2]), Mul(g[1][2], g[1][2])), detg)
    IN  <<<<u11, u12, u13>>, <<u12, u22, u23>>, <<u13, u23, u33>>>>

\* the six cofactors over detg, mirrored to the lower triangle
harness_g_UU(g, detg) ==
    LET u11 == Div(Sub(Mul(g[2][2], g[3][3]), Mul(g[2][3], g[2][3])), detg)
        u12 == Div(Sub(Mul(g[1][3], g[2][3]), Mul(g[1][2], g[3][3])), detg)
        u13 == Div(Sub(Mul(g[1][2], g[2][3]), Mul(g[1][3], g[2][2])), detg)
        u22 == Div(Sub(Mul(g[1][1], g[3][3]), Mul(g[1][3], g[1][3])), detg)
        u23 == Div(Sub(Mul(g[1][2], g[1][3]), Mul(g[1][1], g[2][3])), detg)
        u33 == Div(Sub(Mul(g[1][1], g[2][2]), Mul(g[1][2], g[1][2])), detg)
    IN  <<<<u11, u12, u13>>, <<u12, u22, u23>>, <<u13, u23, u33>>>>

InitInverse ==
    /\ pc = "harness"
    /\ \E g \in SymMatrices : harness = [NoHarness EXCEPT !.g = g]
    /\ vars = FlatVars
    /\ d1 = ZeroD1
    /\ d2 = ZeroD2
    /\ coords = NoCoords
    /\ loc = NoLocals
    /\ ebfields = NoFields
    /\ tetrad = NoTetrad
    /\ omega = NoOmega
    /\ np = NoScalar
    /\ divisors = {}
    /\ NoGrid

HarnessDeterminant ==
    /\ pc = "harness"
    /\ harness' = [harness EXCEPT !.detg = harness_detg(harness.g)]
    /\ pc' = "harness_det"
    /\ UNCHANGED <<Inputs, loc, ebfields, tetrad, omega, np, divisors, Grid>>

HarnessInverse ==
    /\ pc = "harness_det"
    /\ harness' = [harness EXCEPT !.g_UU = harness_g_UU(harness.g, harness.detg)]
    /\ pc' = "harness_inv"
    /\ UNCHANGED <<Inputs, loc, ebfields, tetrad, omega, np, divisors, Grid>>

\* the same matrix through TensorAlgebra::compute_inverse_sym
LibraryInverse ==
    /\ pc = "harness_inv"
    /\ harness' = [harness EXCEPT !.h_UU = compute_inverse_sym(harness.g)]
    /\ pc' = "inverted"
    /\ UNCHANGED <<Inputs, loc, ebfields, tetrad, omega, np, divisors, Grid>>

NextInverse ==
    \/ HarnessDeterminant
    \/ HarnessInverse
    \/ LibraryInverse

SpecInverse == InitInverse /\ [][NextInverse]_state

PositiveDefinite(m) ==
    /\ IsPos(m[1][1])
    /\ IsPos(Sub(Mul(m[1][1], m[2][2]), Mul(m[1][2], m[1][2])))
    /\ IsPos(compute_determinant_sym(m))

IsInverseOf(u, m) ==
    /\ MatMul(m, u) = Identity
    /\ MatMul(u, m) = Identity
    /\ IsSymmetric(u)

\* C6: for every symmetric positive-definite 3x3 matrix the closed-form
\* cofactor inverse (each cofactor over the determinant, mirrored to the
\* lower triangle) times the matrix is the identity, and the inverse is
\* symmetric
C6_InverseRoundTrip ==
    PositiveDefinite(harness.g) =>
        /\ pc \in {"harness_inv", "inverted"}
               => IsInverseOf(harness.g_UU, harness.g)
        /\ pc = "inverted" => IsInverseOf(harness.h_UU, harness.g)

C6_Witness ==
    /\ pc = "inverted"
    /\ PositiveDefinite(harness.g)
    /\ harness.g[1][2] # Zero
    /\ harness.g[1][3] # Zero
    /\ harness.g[2][3] # Zero
    /\ harness.detg # One

----------------------------------------------------------------------------
(* Properties of one evaluation *)

ChiFloor == Rat(1, ChiFloorDen)

AtCentre == coords.x = Zero /\ coords.y = Zero /\ coords.z = Zero
OnAxis == coords.x = Zero /\ coords.y = Zero

IsFlat == vars = FlatVars /\ d1 = ZeroD1 /\ d2 = ZeroD2

\* compute_EB_fields has returned
EBDone ==
    pc \in {"tetrad", "seeded", "gs_v", "gs_u", "gs_u_norm", "gs_w",
            "gs_w_norm", "tetrad_done", "done"}

FlatFieldsZero == (IsFlat /\ EBDone) => ebfields = NoFields

\* C1 as stated: on flat data E and B are zero and Real and Im are zero at
\* every coordinate
C1_FlatZeroEverywhere ==
    /\ FlatFieldsZero
    /\ (IsFlat /\ pc = "done") => (np.Real = Zero /\ np.Im = Zero)

\* C1 amended: on flat data E and B are zero at every coordinate, and Real
\* and Im are zero at every coordinate off the axis x = y = 0 (on the axis
\* the tetrad is 0/0 and the outputs are 0 * NaN)
C1_FlatZeroOffAxis ==
    /\ FlatFieldsZero
    /\ (IsFlat /\ pc = "done" /\ ~OnAxis) => (np.Real = Zero /\ np.Im = Zero)

C1_Witness ==
    /\ IsFlat
    /\ pc = "done"
    /\ ~OnAxis
    /\ coords.z # Zero
    /\ loc.eps_LLL # ZeroT3
    /\ tetrad.w # ZeroVec

----------------------------------------------------------------------------
ValidInputs ==
    /\ IsSymmetric(vars.h)
    /\ IsSymmetric(vars.A)
    /\ \A k \in I3 : IsSymmetric(T2(LAMBDA i, j : d1.h[i][j][k]))
    /\ \A k \in I3 : IsSymmetric(T2(LAMBDA i, j : d1.A[i][j][k]))
    /\ IsSymmetric(d2.chi)
    /\ IsPos(vars.chi)
    /\ IsPos(vars.lapse)

\* the residual of the momentum constraint, D^k K_kj - D_j K, from the
\* covariant derivative compute_EB_fields has formed (covd_K[a][b][c] is
\* D_c K_ab) and the physical inverse metric h_UU * chi
Momentum ==
    T1(LAMBDA j :
         S2(LAMBDA k, l :
              Mul3(loc.h_UU[k][l], vars.chi,
                   Sub(loc.covd_K[k][j][l], loc.covd_K[k][l][j]))))

\* C2 as stated: for all valid inputs E and B are symmetric
C2_BothSymmetric ==
    (EBDone /\ ValidInputs)
        => (IsSymmetric(ebfields.E) /\ IsSymmetric(ebfields.B))

\* C2 amended: for all valid inputs E is symmetric, and B is symmetric
\* exactly when the inputs satisfy the momentum constraint
\* D^k K_kj - D_j K = 0
C2_SymmetricOnConstraint ==
    (EBDone /\ ValidInputs)
        => /\ IsSymmetric(ebfields.E)
           /\ IsSymmetric(ebfields.B) <=> (Momentum = ZeroVec)

C2_Witness ==
    /\ EBDone
    /\ ValidInputs
    /\ Momentum = ZeroVec
    /\ loc.covd_K # ZeroT3
    /\ ebfields.B # ZeroT2
    /\ ebfields.E # ZeroT2

----------------------------------------------------------------------------
\* C7: the conformal factor is floored at 1e-4 before any division by it, so
\* every division by chi in compute_EB_fields and compute_null_tetrad uses a
\* value >= 1e-4
C7_DivisorsFloored == \A c \in divisors : ~Less(c, ChiFloor)

----------------------------------------------------------------------------
(* Properties of compute_null_tetrad *)

\* sum_ij a[i] * b[j] * h[i][j] / c
Inner(a, b, c) == S2(LAMBDA i, j : Div(Mul3(a[i], b[j], vars.h[i][j]), c))

Orthonormal(t, c) ==
    /\ Inner(t.u, t.u, c) = One
    /\ Inner(t.v, t.v, c) = One
    /\ Inner(t.w, t.w, c) = One
    /\ Inner(t.u, t.v, c) = Zero
    /\ Inner(t.u, t.w, c) = Zero
    /\ Inner(t.v, t.w, c) = Zero

FlooredChi == IF Less(vars.chi, ChiFloor) THEN ChiFloor ELSE vars.chi

\* C3 as stated: away from the degenerate points and for chi > 0 the
\* returned (u,v,w) are orthonormal under g_ij = h_ij / chi, chi the bundle's
C3_PhysicalOrthonormal ==
    (pc = "tetrad_done" /\ ~OnAxis /\ IsPos(vars.chi))
        => Orthonormal(tetrad, vars.chi)

\* C3 amended: away from the axis x = y = 0 the returned (u,v,w) are
\* orthonormal under h_ij / max(chi, 1e-4), which is the physical metric
\* exactly when chi >= 1e-4
C3_FlooredOrthonormal ==
    (pc = "tetrad_done" /\ ~OnAxis /\ IsPos(vars.chi))
        => /\ Orthonormal(tetrad, FlooredChi)
           /\ ~Less(vars.chi, ChiFloor) => Orthonormal(tetrad, vars.chi)

C3_Witness ==
    /\ pc = "tetrad_done"
    /\ ~OnAxis
    /\ Less(vars.chi, ChiFloor) /\ IsPos(vars.chi)
    /\ vars.h[1][2] # Zero
    /\ omega.o12 # Zero

----------------------------------------------------------------------------
SeedV == <<Neg(coords.y), coords.x, Zero>>
SeedU == <<coords.x, coords.y, coords.z>>

Scale(a, c) == T1(LAMBDA i : Mul(c, a[i]))
Minus(a, b) == T1(LAMBDA i : Sub(a[i], b[i]))
Unit(a) == Scale(a, Div(One, Sqrt(Inner(a, a, FlooredChi))))

AfterV == pc \in {"gs_u", "gs_u_norm", "gs_w", "gs_w_norm", "tetrad_done"}
AfterU == pc \in {"gs_w", "gs_w_norm", "tetrad_done"}

C8_Step ==
    \* v is final once normalised, u once it is normalised
    /\ AfterV => tetrad'.v = tetrad.v
    /\ AfterU => tetrad'.u = tetrad.u
    \* u changes only in its own two steps, after v is final
    /\ (pc # "tetrad" /\ tetrad'.u # tetrad.u) => pc \in {"gs_u", "gs_u_norm"}
    /\ pc = "gs_u" =>
           tetrad'.u = Minus(tetrad.u,
                             Scale(tetrad.v, Inner(tetrad.v, tetrad.u, FlooredChi)))
    /\ pc = "gs_u_norm" => tetrad'.u = Unit(tetrad.u)
    \* after its seed, w changes only once v and u are final
    /\ (pc \notin {"tetrad", "seeded"} /\ tetrad'.w # tetrad.w) => AfterU
    /\ pc = "gs_w" =>
           tetrad'.w = Minus(Minus(tetrad.w,
                                   Scale(tetrad.v, Inner(tetrad.v, tetrad.w, FlooredChi))),
                             Scale(tetrad.u, Inner(tetrad.u, tetrad.w, FlooredChi)))
    /\ pc = "gs_w_norm" => tetrad'.w = Unit(tetrad.w)

----------------------------------------------------------------------------
NonZero(a) == a # Zero /\ a # NaN

NormsNonZero ==
    /\ AfterV => NonZero(omega.o11)
    /\ AfterU => NonZero(omega.o22)
    /\ pc = "tetrad_done" => NonZero(omega.o33)

\* C9 as stated: away from the coordinate centre, for positive-definite h
\* and chi > 0, none of omega_11, omega_22, omega_33 is zero
C9_NonZeroOffCentre == (~AtCentre /\ IsPos(vars.chi)) => NormsNonZero

\* C9 amended: the three norms are nonzero at every point off the axis
\* x = y = 0 (on the whole axis the seed v = (-y, x, 0) is the zero vector)
C9_NonZeroOffAxis == (~OnAxis /\ IsPos(vars.chi)) => NormsNonZero

C9_Witness ==
    /\ pc = "tetrad_done"
    /\ ~OnAxis
    /\ coords.z # Zero
    /\ IsPos(vars.chi)
    /\ vars.h # Identity

----------------------------------------------------------------------------
WSeedOrthogonal ==
    /\ (pc \in {"gs_w_norm", "tetrad_done"})
           => (omega.o13 = Zero /\ omega.o23 = Zero)
    /\ pc = "gs_w" => (omega_13(tetrad, vars.h, omega.chi) = Zero
                      /\ omega_23(tetrad, vars.h, omega.chi) = Zero)

\* C10 as stated: the seed w is orthogonal to v and u, so omega_13 = 0 and
\* omega_23 = 0 and removing the v- and u-components leaves w unchanged
C10_SeedWOrthogonal ==
    /\ []WSeedOrthogonal
    /\ [][pc = "gs_w" => tetrad'.w = tetrad.w]_state

\* C10 amended: the same, at every point off the axis x = y = 0 (on the axis
\* v is 0/0 and so are omega_13, omega_23 and w)
C10_SeedWOrthogonalOffAxis ==
    /\ [](~OnAxis => WSeedOrthogonal)
    /\ [][(~OnAxis /\ pc = "gs_w") => tetrad'.w = tetrad.w]_state
    /\ [][(~OnAxis /\ pc \notin {"tetrad", "seeded"} /\ tetrad'.w # tetrad.w)
              => pc = "gs_w_norm"]_state

C10_Witness ==
    /\ pc = "gs_w_norm"
    /\ ~OnAxis
    /\ vars.h[1][3] # Zero
    /\ vars.h[2][3] # Zero
    /\ omega.o12 # Zero
    /\ tetrad.w # ZeroVec

----------------------------------------------------------------------------
(* Two evaluations of the first block of compute_EB_fields on bundles that
   differ in shift and lapse only *)

MaxShift == 1

ShiftValues ==
    {<<N(a[1]), N(a[2]), N(a[3])>> :
        a \in (-MaxShift .. MaxShift) \X (-MaxShift .. MaxShift)
              \X (-MaxShift .. MaxShift)}
LapseValues == {Zero, One, N(2), N(-1)}
OtherGauges ==
    {[shift |-> ZeroVec, lapse |-> One],
     [shift |-> <<One, N(-1), One>>, lapse |-> One],
     [shift |-> <<One, N(-1), One>>, lapse |-> Half]}

InitEpsilon ==
    /\ pc = "compute"
    /\ cell = Origin
    /\ \E chi \in ChiValues \cup {Zero}, s \in ShiftValues, l \in LapseValues :
           vars = [FlatVars EXCEPT !.chi = chi, !.shift = s, !.lapse = l]
    /\ d1 = ZeroD1
    /\ d2 = ZeroD2
    /\ coords = NoCoords
    /\ loc = NoLocals
    /\ ebfields = NoFields
    /\ tetrad = NoTetrad
    /\ omega = NoOmega
    /\ np = NoScalar
    /\ divisors = {}
    /\ fab = <<>>
    /\ todo = {}
    /\ accesses = <<>>
    /\ harness = NoHarness
    /\ \E g \in OtherGauges :
           parked = <<[Context EXCEPT !.vars.shift = g.shift,
                                      !.vars.lapse = g.lapse]>>

NextEpsilon ==
    \/ EB_Epsilon3LLL
    \/ Switch

SpecEpsilon == InitEpsilon /\ [][NextEpsilon]_state

\* both evaluations have formed epsilon3_LLL
BothProjected ==
    /\ pc = "eb_inverse"
    /\ \A i \in DOMAIN parked : parked[i].pc = "eb_inverse"

\* one term of the contraction with the normal (index 4 is time)
ContractionTerm(v, i, j, k, l) ==
    Div(Mul3(n_U(v)[l], N(epsilon4D(i, j, k, l)), v.lapse),
        Mul(v.chi, Sqrt(v.chi)))

\* epsilon4[i][j][k][3] / chi^(3/2)
SpatialVolumeForm(chi) ==
    T3(LAMBDA i, j, k : Div(N(epsilon4D(i, j, k, 4)), Mul(chi, Sqrt(chi))))

TotallyAntisymmetric(t) ==
    \A i, j, k \in I3 :
        /\ t[i][j][k] = Neg(t[j][i][k])
        /\ t[i][j][k] = Neg(t[i][k][j])
        /\ t[i][j][k] = Neg(t[k][j][i])

\* C11: epsilon3_LLL does not depend on the shift or on the (nonzero) lapse:
\* of the contraction with the normal only the time term is nonzero, two
\* evaluations differing in shift and lapse only give the same tensor, and
\* it is epsilon4[i][j][k][3] / chi^(3/2), totally antisymmetric
C11_GaugeIndependent ==
    (/\ BothProjected
     /\ IsPos(vars.chi)
     /\ vars.lapse # Zero
     /\ \A n \in DOMAIN parked : parked[n].vars.lapse # Zero)
        => /\ \A n \in DOMAIN parked : parked[n].loc.eps_LLL = loc.eps_LLL
           /\ loc.eps_LLL = SpatialVolumeForm(vars.chi)
           /\ TotallyAntisymmetric(loc.eps_LLL)
           /\ \A i, j, k, l \in I3 : ContractionTerm(vars, i, j, k, l) = Zero

C11_Witness ==
    /\ BothProjected
    /\ IsPos(vars.chi)
    /\ vars.chi # One
    /\ vars.lapse \notin {Zero, One}
    /\ \A i \in I3 : vars.shift[i] # Zero
    /\ \E n \in DOMAIN parked :
           /\ parked[n].vars.lapse \notin {Zero, vars.lapse}
           /\ parked[n].vars.shift # vars.shift
           /\ parked[n].vars.chi = vars.chi
    /\ loc.eps_LLL[1][2][3] \notin {Zero, One, NaN}

----------------------------------------------------------------------------
(* The test's trace / trace-free decomposition of K, read back by the
   K_tensor block of compute_EB_fields *)

GR_SPACEDIM == 3

\* in_fab(c_h11 .. c_h33) = chi * g, the six components read back as a
\* symmetric tensor
harness_h(chi, g) ==
    T2(LAMBDA i, j : IF i <= j THEN Mul(chi, g[i][j]) ELSE Mul(chi, g[j][i]))

\* FOR2(a, b) { trK += g_UU[a][b] * K[a][b]; }
harness_trK(g_UU, K) == S2(LAMBDA a, b : Mul(g_UU[a][b], K[a][b]))

\* mutant: the division of the trace part by GR_SPACEDIM left out
harness_A_whole_trace(chi, K, trK, g) ==
    T2(LAMBDA i, j :
        IF i <= j
        THEN Mul(chi, Sub(K[i][j], Mul(trK, g[i][j])))
        ELSE Mul(chi, Sub(K[j][i], Mul(trK, g[j][i]))))

\* in_fab(c_A11 .. c_A33) = chi * (K - trK * g / GR_SPACEDIM)
harness_A(chi, K, trK, g) ==
    T2(LAMBDA i, j :
        IF i <= j
        THEN Mul(chi, Sub(K[i][j], Div(Mul(trK, g[i][j]), N(GR_SPACEDIM))))
        ELSE Mul(chi, Sub(K[j][i], Div(Mul(trK, g[j][i]), N(GR_SPACEDIM)))))

\* symmetric g: positive-definite, indefinite and singular ones
DecompMetrics ==
    {Identity, Sym(2, 1, 1, 1, 0, 0), Sym(2, 3, 2, 1, 1, 1),
     Sym(1, 1, 1, 1, 1, 0), Sym(1, 2, 1, -1, 1, 1), Sym(1, 1, 1, 1, 0, 0)}

\* symmetric K
DecompK ==
    {Sym(k[1], k[2], k[3], k[2], k[3], k[1]) :
        k \in (-MaxEntry .. MaxEntry) \X (-MaxEntry .. MaxEntry)
              \X (-MaxEntry .. MaxEntry)}

\* chi is pow(fabs(detg), -1/3) in the test, irrational in general; the
\* decomposition is taken as a function of chi, zero included
DecompChi == {Zero, Rat(1, 4), N(2), N(-1), Sqrt(N(2))}

InitDecompose ==
    /\ pc = "harness"
    /\ \E g \in DecompMetrics, K \in DecompK, chi \in DecompChi :
           harness = [NoHarness EXCEPT !.g = g, !.K = K, !.chi = chi]
    /\ vars = FlatVars
    /\ d1 = ZeroD1
    /\ d2 = ZeroD2
    /\ coords = NoCoords
    /\ loc = NoLocals
    /\ ebfields = NoFields
    /\ tetrad = NoTetrad
    /\ omega = NoOmega
    /\ np = NoScalar
    /\ divisors = {}
    /\ NoGrid

\* chi and h written to the cell the evaluation reads
HarnessConformal ==
    /\ pc = "harness_inv"
    /\ vars' = [vars EXCEPT !.chi = harness.chi,
                            !.h = harness_h(harness.chi, harness.g)]
    /\ pc' = "harness_h"
    /\ UNCHANGED <<d1, d2, coords, loc, ebfields, tetrad, omega, np, divisors,
                   Grid, harness>>

\* trK and A written to the same cell
HarnessExtrinsic ==
    /\ pc = "harness_h"
    /\ harness' = [harness EXCEPT !.trK = harness_trK(harness.g_UU, harness.K)]
    /\ vars' = [vars EXCEPT !.K = harness'.trK,
                            !.A = harness_A(harness.chi, harness.K,
                                            harness'.trK, harness.g)]
    /\ pc' = "eb_K"
    /\ UNCHANGED <<d1, d2, coords, loc, ebfields, tetrad, omega, np, divisors,
                   Grid>>

NextDecompose ==
    \/ HarnessDeterminant
    \/ HarnessInverse
    \/ HarnessConformal
    \/ HarnessExtrinsic
    \/ EB_KTensor

SpecDecompose == InitDecompose /\ [][NextDecompose]_state

\* K_tensor has been rebuilt from the decomposed data
Reconstructed == pc = "eb_d1_K"

\* C12: for symmetric g with nonzero determinant, symmetric K and chi # 0,
\* h = chi*g, trK = sum g_UU[a][b]*K[a][b] and
\* A = chi*(K - trK*g/3) make K_tensor = A/chi + (1/3)*h*trK/chi equal to
\* the original K in every component
C12_DecompositionRoundTrip ==
    (/\ Reconstructed
     /\ IsSymmetric(harness.g)
     /\ IsSymmetric(harness.K)
     /\ harness.detg # Zero
     /\ harness.chi # Zero)
        => \A i, j \in I3 : loc.K_tensor[i][j] = harness.K[i][j]

C12_Witness ==
    /\ Reconstructed
    /\ harness.detg \notin {Zero, One}
    /\ harness.chi \notin {Zero, One}
    /\ harness.trK \notin {Zero, NaN}
    /\ \A i, j \in I3 : vars.A[i][j] \notin {Zero, NaN}
    /\ harness.K[1][2] # Zero
    /\ loc.K_tensor = harness.K

====
